---- MODULE Spec2Model ----
(***************************************************************************)
(* Chaos controller (src/src/instrumentation.js): the in-memory            *)
(* masterState table, the HTTP handlers that mutate it (toggle, reset,     *)
(* cascading scenario), the status aggregator, and propagateChaos.  Node   *)
(* runs one callback at a time, so each action below is the code between   *)
(* two suspension points (an await on axios, or a timer firing).           *)
(*                                                                         *)
(* JavaScript values are modelled as strings: "true", "false" and          *)
(* "undefined" (a field missing from the request body).  An object is a    *)
(* function from its own keys to values.                                   *)
(***************************************************************************)
EXTENDS Naturals, Sequences, FiniteSets, TLC

\* ---------------------------------------------------------------- bounds
\* Requests ever received by the controller.
MaxReqs == 2
\* Cascading-scenario invocations among them.
MaxScenarios == 1

\* ------------------------------------------------------------- constants
T == "true"
F == "false"
U == "undefined"

\* Object.keys(SERVICES) / Object.keys(masterState), in insertion order.
SvcOrder == <<"claims", "policy", "investment", "notification">>
Services == {SvcOrder[i] : i \in 1..Len(SvcOrder)}

FaultKinds == {"service_crash", "high_latency", "db_failure", "memory_spike", "cpu_spike"}

\* Names that masterState[name] finds on Object.prototype: truthy, yet no
\* own key of masterState and no key of SERVICES.
Inherited == {"constructor"}

EmptyObj == [k \in {} |-> F]

\* The sequence with the services and faults of its second and third steps
\* exchanged.
CascadeSeqSwapped ==
  << [delay |-> 0,    service |-> "claims",       fault |-> "high_latency"],
     [delay |-> 2000, service |-> "claims",       fault |-> "db_failure"],
     [delay |-> 4000, service |-> "policy",       fault |-> "high_latency"],
     [delay |-> 6000, service |-> "investment",   fault |-> "service_crash"],
     [delay |-> 8000, service |-> "notification", fault |-> "service_crash"] >>

\* const sequence of the cascading scenario; delay in milliseconds.
CascadeSeq ==
  << [delay |-> 0,    service |-> "claims",       fault |-> "high_latency"],
     [delay |-> 2000, service |-> "policy",       fault |-> "high_latency"],
     [delay |-> 4000, service |-> "claims",       fault |-> "db_failure"],
     [delay |-> 6000, service |-> "investment",   fault |-> "service_crash"],
     [delay |-> 8000, service |-> "notification", fault |-> "service_crash"] >>

\* axios.post(url, state, { timeout: 5000 })
PostTimeout == 5000

\* ----------------------------------------------------------------- inputs
\* Bodies of POST /chaos/toggle, after const {service, fault, enabled} = req.body.
WellFormedBodies ==
  [service : {"claims", "all"}, fault : {"high_latency", "memory_spike"},
   enabled : {T, F}]

MalformedBodies ==
  { [service |-> "ghost",       fault |-> "high_latency", enabled |-> T],
    [service |-> "constructor", fault |-> "high_latency", enabled |-> T],
    [service |-> "claims",      fault |-> "bogus",        enabled |-> T],
    [service |-> U,             fault |-> "high_latency", enabled |-> T],
    [service |-> "claims",      fault |-> U,              enabled |-> T],
    [service |-> "claims",      fault |-> "high_latency", enabled |-> U],
    [service |-> U,             fault |-> U,              enabled |-> U] }

ToggleBodies == WellFormedBodies \cup MalformedBodies

\* Outcomes of axios.post(url, state, {timeout: 5000}): 2xx after the service
\* applied the body, or an error (timeout, refused, non-2xx) without it.
PostOutcomes == {"ok", "error"}
\* Outcomes of axios.get(url/health): a body with a truthy chaos field, a body
\* without one, or an error.
HealthOutcomes == {"chaos", "nochaos", "error"}

\* ------------------------------------------------------------------ state
VARIABLES
  masterState,   \* let masterState: service -> (key -> value)
  remote,        \* the fault flags each downstream service holds
  reqs,          \* the handlers in progress, by request number
  started,       \* requests received so far
  timers,        \* scenario invocations: steps fired, propagations in flight
  lastResp,      \* the response res.json sent in the step just taken, if any
  initial        \* masterState when the run began (never written)

vars == <<masterState, remote, reqs, started, timers, lastResp, initial>>

\* ------------------------------------------------------- object helpers
\* obj[k] = v: assignment to a property, creating the key when it is new.
Put(obj, k, v) == [x \in DOMAIN obj \cup {k} |-> IF x = k THEN v ELSE obj[x]]

\* JSON.stringify of a flat object (res.json, axios body): a property whose
\* value is undefined is left out.
ToJSON(obj) == [k \in {x \in DOMAIN obj : obj[x] # U} |-> obj[k]]

\* A downstream service applying the body of POST /chaos/set to its flags.
Merge(obj, delta) ==
  [k \in DOMAIN obj \cup DOMAIN delta |-> IF k \in DOMAIN delta THEN delta[k] ELSE obj[k]]

\* obj[k] read: undefined when obj has no such key.
Get(obj, k) == IF k \in DOMAIN obj THEN obj[k] ELSE U

\* masterState[service] is truthy.
Truthy(service) == service \in Services \cup Inherited

\* masterState[svc] = { [fault]: enabled } over the record's keys: the other
\* flags of the service are lost.
SetFlagReplacing(ms, svc, fault, enabled) ==
  [ms EXCEPT ![svc] = [k \in DOMAIN @ \cup {fault} |-> IF k = fault THEN enabled ELSE F]]

\* masterState[svc][fault] = masterState[svc][fault] || enabled: a flag once
\* set is never cleared by a toggle.
SetFlagSticky(ms, svc, fault, enabled) ==
  [ms EXCEPT ![svc] = Put(@, fault, IF Get(@, fault) = T THEN T ELSE enabled)]

\* A toggle that propagates first and assigns the flag only once the post
\* has succeeded: no local write has been made when the delta goes out.
SetFlagDeferred(ms, svc, fault, enabled) == ms

\* masterState[svc][fault] = enabled
SetFlag(ms, svc, fault, enabled) == [ms EXCEPT ![svc] = Put(@, fault, enabled)]

\* A reset that walks the five known fault kinds instead of the record's keys.
ClearKnownKinds(ms, svc) ==
  [ms EXCEPT ![svc] = [k \in DOMAIN @ |-> IF k \in FaultKinds THEN F ELSE @[k]]]

\* An inner loop that gives up the event loop after its first assignment:
\* only the first key of the record is cleared when other callbacks run.
ClearFirstKey(ms, svc) == [ms EXCEPT ![svc] = Put(@, "service_crash", F)]

\* for (const fault of Object.keys(masterState[svc])) masterState[svc][fault] = false
ClearAll(ms, svc) == [ms EXCEPT ![svc] = [k \in DOMAIN @ |-> F]]

\* { [fault]: enabled } as axios serialises it.
Delta(fault, enabled) == ToJSON([k \in {fault} |-> enabled])

\* masterState as res.json serialises it.
MasterJSON(ms) == [s \in Services |-> ToJSON(ms[s])]

\* status[name] = { healthy: true, chaos: r.data.chaos || {} }
HealthyEntry(o, reported) ==
  [healthy |-> TRUE, live |-> FALSE, chaos |-> IF o = "chaos" THEN reported ELSE EmptyObj]

\* What axios.get returned for one service: the outcome and r.data.chaos.
HealthLog(o, reported) == [outcome |-> o, chaos |-> IF o = "chaos" THEN reported ELSE EmptyObj]

\* status[name] = { healthy: false, chaos: {} }: no fallback to the local record.
UnhealthyEmpty(rec) == [healthy |-> FALSE, live |-> FALSE, chaos |-> EmptyObj]

\* status[name] = { healthy: false, chaos: { ...masterState[name] } }: a copy
\* of the record as it was when the health check failed.
UnhealthyCopy(rec) == [healthy |-> FALSE, live |-> FALSE, chaos |-> ToJSON(rec)]

\* status[name] = { healthy: false, chaos: masterState[name] }: a reference to
\* the live record, serialised only when the response is sent.
UnhealthyEntry(rec) == [healthy |-> FALSE, live |-> TRUE, chaos |-> EmptyObj]

\* status as res.json serialises it.
StatusJSON(status, ms) ==
  [s \in DOMAIN status |->
     [healthy |-> status[s].healthy,
      chaos   |-> IF status[s].live THEN ToJSON(ms[s]) ELSE status[s].chaos]]

\* ----------------------------------------------------------- request data
NoBody == [service |-> U, fault |-> U, enabled |-> U]

\* A handler's locals.  failed (the services logger.error named), health
\* (what each health check returned), dirty (the services another handler
\* or timer wrote after this handler had written them) and posts (the
\* services propagateChaos was called for, in order) record what happened;
\* the code does not read them.
NewReq(kind, body) ==
  [kind |-> kind, body |-> body, i |-> 0, target |-> U, payload |-> EmptyObj,
   status |-> EmptyObj, failed |-> {}, health |-> EmptyObj, dirty |-> {},
   posts |-> << >>]

NoResp ==
  [id |-> 0, req |-> NewReq("none", NoBody), code |-> 0, status |-> "none",
   masterState |-> EmptyObj, services |-> EmptyObj, steps |-> 0]

\* res.json(body): express answers 200 with the serialised body.
Response(id, req, status, ms, services, steps) ==
  [id |-> id, req |-> req, code |-> 200, status |-> status,
   masterState |-> ms, services |-> services, steps |-> steps]

Without(f, r) == [x \in DOMAIN f \ {r} |-> f[x]]

\* The services whose record a handler in progress has written so far; for
\* a status query, the services whose record it holds as a fallback.
Written(req) ==
  IF req.kind = "reset" \/ (req.kind = "toggle" /\ req.body.service = "all")
    THEN {SvcOrder[j] : j \in 1..req.i}
  ELSE IF req.kind = "toggle" /\ req.body.service \in Services
    THEN {req.body.service}
  ELSE IF req.kind = "status"
    THEN {s \in DOMAIN req.status : req.status[s].live}
    ELSE {}

\* The handlers in progress, once some other callback has written svc.
Touch(rq, svc) ==
  [q \in DOMAIN rq |->
     IF svc \in Written(rq[q]) THEN [rq[q] EXCEPT !.dirty = @ \cup {svc}] ELSE rq[q]]

\* await propagateChaos(svc, state): the handler is suspended on axios.post.
Awaiting(req, i, svc, state) ==
  [req EXCEPT !.i = i, !.target = svc, !.payload = ToJSON(state),
              !.posts = Append(@, svc)]

\* A propagation awaited under a lock that the next request or timer
\* callback has to take: nothing else runs until the handler has answered.
YieldsWhenDone(rq) == rq = EmptyObj

\* await: a handler suspended on an axios call has given the event loop
\* back, so with any handlers in progress the next callback can run.
Yields(rq) == TRUE

Init ==
  /\ masterState = [s \in Services |-> [f \in FaultKinds |-> F]]
  /\ remote = [s \in Services |-> [f \in FaultKinds |-> F]]
  /\ reqs = EmptyObj
  /\ started = 0
  /\ timers = << >>
  /\ lastResp = NoResp
  /\ initial = masterState

\* ---------------------------------------------------------------- toggle
\* What the toggle handler does once no propagation is left to await:
\* res.json({ status: 'updated', masterState }).
ToggleRespond(r, req, ms) ==
  /\ lastResp' = Response(r, req, "updated", MasterJSON(ms), EmptyObj, 0)
  /\ reqs' = Without(reqs, r)

\* POST /chaos/toggle up to its first await (or, with nothing to await, to
\* its response).
ToggleStart(b) ==
  /\ started < MaxReqs
  /\ Yields(reqs)
  /\ started' = started + 1
  /\ LET r   == started + 1
         req == NewReq("toggle", b)
         svc == IF b.service = "all" THEN SvcOrder[1] ELSE b.service
         ms  == SetFlag(masterState, svc, b.fault, b.enabled)
     IN IF b.service = "all" \/ b.service \in Services
          THEN /\ masterState' = ms
               /\ reqs' = Put(Touch(reqs, svc), r,
                              Awaiting(req, 1, svc, [k \in {b.fault} |-> b.enabled]))
               /\ lastResp' = NoResp
        ELSE IF Truthy(b.service)
          \* the write lands on an object reached through the prototype
          \* chain, not on masterState; SERVICES[service] is no base URL
          \* either, and the POST goes to no registered service
          THEN /\ reqs' = Put(reqs, r, Awaiting(req, 1, svc, [k \in {b.fault} |-> b.enabled]))
               /\ lastResp' = NoResp
               /\ UNCHANGED masterState
          ELSE /\ ToggleRespond(r, req, masterState)
               /\ UNCHANGED masterState
  /\ UNCHANGED <<remote, timers, initial>>

\* What propagateChaos leaves behind when axios.post settles: the downstream
\* flags (when the service received the body) and the log line.
Delivered(rem, svc, payload, o) ==
  IF o = "ok" /\ svc \in Services
    THEN [rem EXCEPT ![svc] = Merge(@, payload)]
    ELSE rem

\* catch (err) { logger.error(`Failed to propagate chaos to ${service}: ...`) }
Logged(req, o) == IF o = "ok" THEN req ELSE [req EXCEPT !.failed = @ \cup {req.target}]

\* A catch block that undoes the toggle whose propagation failed.
RollbackOnError(ms, req, o) ==
  IF o = "error" /\ req.kind = "toggle" /\ req.target \in Services
    THEN SetFlag(ms, req.target, req.body.fault, IF req.body.enabled = T THEN F ELSE T)
    ELSE ms

\* masterState when propagateChaos has returned: neither branch of its
\* try/catch writes it.
AfterPropagate(ms, req, o) == ms

\* A loop that calls propagateChaos again for the service whose post failed.
RetryIndex(req, o) == IF o = "error" THEN req.i ELSE req.i + 1

\* A loop that a failed post ends.
AbortIndex(req, o) == IF o = "error" THEN Len(SvcOrder) + 1 ELSE req.i + 1

\* The for loop's next service once the awaited propagateChaos has
\* returned: the next key, whatever the outcome was.
NextIndex(req, o) == req.i + 1

\* axios.post of a toggle settles; the handler resumes after the await.
ToggleResume(r, o) ==
  /\ r \in DOMAIN reqs
  /\ reqs[r].kind = "toggle"
  /\ LET req == Logged(reqs[r], o)
         b   == req.body
         ms  == AfterPropagate(masterState, reqs[r], o)
     IN /\ remote' = Delivered(remote, req.target, req.payload, o)
        /\ IF b.service = "all" /\ NextIndex(req, o) <= Len(SvcOrder)
             THEN LET svc == SvcOrder[NextIndex(req, o)]
                  IN /\ masterState' = SetFlag(ms, svc, b.fault, b.enabled)
                     /\ reqs' = [Touch(reqs, svc) EXCEPT ![r] =
                                   Awaiting(req, NextIndex(req, o), svc,
                                            [k \in {b.fault} |-> b.enabled])]
                     /\ lastResp' = NoResp
             ELSE /\ ToggleRespond(r, req, ms)
                  /\ masterState' = ms
  /\ UNCHANGED <<started, timers, initial>>

\* ----------------------------------------------------------------- reset
\* A loop body that calls propagateChaos before it clears the record.
ResetServiceStale(r, req, i, cur) ==
  LET svc == SvcOrder[i]
  IN /\ masterState' = ClearAll(cur, svc)
     /\ reqs' = Put(Touch(reqs, svc), r, Awaiting(req, i, svc, cur[svc]))

\* The body of reset's outer loop for SvcOrder[i], up to the await.
ResetService(r, req, i, cur) ==
  LET svc == SvcOrder[i]
      ms  == ClearAll(cur, svc)
  IN /\ masterState' = ms
     /\ reqs' = Put(Touch(reqs, svc), r, Awaiting(req, i, svc, ms[svc]))

\* A reset that also cancels the scenario timers still pending
\* (clearTimeout): their callbacks never run.
ResetStartCancelling ==
  /\ started < MaxReqs
  /\ Yields(reqs)
  /\ started' = started + 1
  /\ ResetService(started + 1, NewReq("reset", NoBody), 1, masterState)
  /\ timers' = [n \in 1..Len(timers) |-> [timers[n] EXCEPT !.fired = Len(CascadeSeq)]]
  /\ lastResp' = NoResp
  /\ UNCHANGED <<remote, initial>>

\* POST /chaos/reset up to its first await.
ResetStart ==
  /\ started < MaxReqs
  /\ Yields(reqs)
  /\ started' = started + 1
  /\ ResetService(started + 1, NewReq("reset", NoBody), 1, masterState)
  /\ lastResp' = NoResp
  /\ UNCHANGED <<remote, timers, initial>>

\* axios.post of a reset settles; the handler resumes after the await.
ResetResume(r, o) ==
  /\ r \in DOMAIN reqs
  /\ reqs[r].kind = "reset"
  /\ LET req == Logged(reqs[r], o)
         ms  == AfterPropagate(masterState, reqs[r], o)
     IN /\ remote' = Delivered(remote, req.target, req.payload, o)
        /\ IF NextIndex(req, o) <= Len(SvcOrder)
             THEN /\ ResetService(r, req, NextIndex(req, o), ms)
                  /\ lastResp' = NoResp
             ELSE /\ lastResp' = Response(r, req, "reset", MasterJSON(ms), EmptyObj, 0)
                  /\ reqs' = Without(reqs, r)
                  /\ masterState' = ms
  /\ UNCHANGED <<started, timers, initial>>

\* ---------------------------------------------------------------- status
\* GET /chaos/status up to its first await: axios.get of the first service.
StatusStart ==
  /\ started < MaxReqs
  /\ Yields(reqs)
  /\ started' = started + 1
  /\ reqs' = Put(reqs, started + 1,
                 [NewReq("status", NoBody) EXCEPT !.i = 1, !.target = SvcOrder[1]])
  /\ lastResp' = NoResp
  /\ UNCHANGED <<masterState, remote, timers, initial>>

\* axios.get settles; the loop records the entry and goes on to the next
\* service, or sends res.json({ services: status, masterState }).
StatusResume(r, o) ==
  /\ r \in DOMAIN reqs
  /\ reqs[r].kind = "status"
  /\ LET req0  == reqs[r]
         name  == req0.target
         entry == IF o = "error" THEN UnhealthyEntry(masterState[name]) ELSE HealthyEntry(o, remote[name])
         req   == [req0 EXCEPT !.status = Put(@, name, entry),
                               !.health = Put(@, name, HealthLog(o, remote[name]))]
     IN IF req.i < Len(SvcOrder)
          THEN /\ reqs' = [reqs EXCEPT ![r] =
                             [req EXCEPT !.i = @ + 1, !.target = SvcOrder[req.i + 1]]]
               /\ lastResp' = NoResp
          ELSE /\ lastResp' = Response(r, req, "status", MasterJSON(masterState),
                                       StatusJSON(req.status, masterState), 0)
               /\ reqs' = Without(reqs, r)
  /\ UNCHANGED <<masterState, remote, started, timers, initial>>

\* -------------------------------------------------------------- scenario
\* A handler that runs the delay-0 step itself before it answers.
CascadingStartEager ==
  /\ started < MaxReqs
  /\ Len(timers) < MaxScenarios
  /\ started' = started + 1
  /\ masterState' = SetFlag(masterState, CascadeSeq[1].service, CascadeSeq[1].fault, T)
  /\ timers' = Append(timers, [id |-> started + 1, fired |-> 1, inflight |-> {1}])
  /\ reqs' = Touch(reqs, CascadeSeq[1].service)
  /\ lastResp' = Response(started + 1, NewReq("cascading", NoBody),
                          "cascading_failure_started", EmptyObj, EmptyObj, Len(CascadeSeq))
  /\ UNCHANGED <<remote, initial>>

\* POST /chaos/scenario/cascading: one setTimeout per step, then
\* res.json({ status: 'cascading_failure_started', steps: sequence.length }).
\* No timer callback can run before the handler has returned.
CascadingStart ==
  /\ started < MaxReqs
  /\ Yields(reqs)
  /\ Len(timers) < MaxScenarios
  /\ started' = started + 1
  /\ timers' = Append(timers, [id |-> started + 1, fired |-> 0, inflight |-> {}])
  /\ lastResp' = Response(started + 1, NewReq("cascading", NoBody),
                          "cascading_failure_started", EmptyObj, EmptyObj, Len(CascadeSeq))
  /\ UNCHANGED <<masterState, remote, reqs, initial>>

\* The callback of step k of invocation n, up to its await.  Timers of one
\* invocation expire in the order of their delays; timers of equal delay run
\* in the order they were set; the timeout of an earlier step's post, set
\* when that step fired, expires before a timer due later than it.
TimerFires(n) ==
  /\ n \in 1..Len(timers)
  /\ Yields(reqs)
  /\ timers[n].fired < Len(CascadeSeq)
  /\ LET k    == timers[n].fired + 1
         step == CascadeSeq[k]
     IN /\ \A m \in 1..(n - 1) : timers[m].fired >= k
        \* a post still unsettled has not reached its timeout
        /\ \A j \in timers[n].inflight : CascadeSeq[j].delay + PostTimeout > step.delay
        /\ masterState' = SetFlag(masterState, step.service, step.fault, T)
        /\ timers' = [timers EXCEPT ![n].fired = k, ![n].inflight = @ \cup {k}]
        /\ reqs' = Touch(reqs, step.service)
  /\ lastResp' = NoResp
  /\ UNCHANGED <<remote, started, initial>>

\* axios.post of step k settles; the callback logs and ends.
StepResume(n, k, o) ==
  /\ n \in 1..Len(timers)
  /\ k \in timers[n].inflight
  /\ remote' = Delivered(remote, CascadeSeq[k].service, Delta(CascadeSeq[k].fault, T), o)
  /\ timers' = [timers EXCEPT ![n].inflight = @ \ {k}]
  /\ lastResp' = NoResp
  /\ UNCHANGED <<masterState, reqs, started, initial>>

\* ------------------------------------------------------------------ system
Next ==
  \/ \E b \in ToggleBodies : ToggleStart(b)
  \/ \E r \in 1..MaxReqs, o \in PostOutcomes : ToggleResume(r, o)
  \/ ResetStart
  \/ \E r \in 1..MaxReqs, o \in PostOutcomes : ResetResume(r, o)
  \/ StatusStart
  \/ \E r \in 1..MaxReqs, o \in HealthOutcomes : StatusResume(r, o)
  \/ CascadingStart
  \/ \E n \in 1..MaxScenarios : TimerFires(n)
  \/ \E n \in 1..MaxScenarios, k \in 1..Len(CascadeSeq), o \in PostOutcomes : StepResume(n, k, o)

Spec == Init /\ [][Next]_vars

\* ------------------------------------------------ calls settle, timers fire
\* The callbacks the event loop owes: every axios call is given a timeout
\* (3000 ms for a health check, 5000 ms for a post), so its promise settles,
\* with a response or with an error; every timer set by setTimeout expires.
Settles ==
  \/ \E r \in 1..MaxReqs, o \in PostOutcomes : ToggleResume(r, o)
  \/ \E r \in 1..MaxReqs, o \in PostOutcomes : ResetResume(r, o)
  \/ \E r \in 1..MaxReqs, o \in {"nochaos", "error"} : StatusResume(r, o)
  \/ \E n \in 1..MaxScenarios : TimerFires(n)
  \/ \E n \in 1..MaxScenarios, k \in 1..Len(CascadeSeq), o \in PostOutcomes : StepResume(n, k, o)

\* The requests of the dashboard's buttons for one fault kind: a toggle of
\* one service, a toggle of every service, reset, status and the scenario.
LiveBodies ==
  { [service |-> "claims", fault |-> "high_latency", enabled |-> F],
    [service |-> "all", fault |-> "high_latency", enabled |-> T] }

Arrives ==
  \/ \E b \in LiveBodies : ToggleStart(b)
  \/ ResetStart
  \/ StatusStart
  \/ CascadingStart

NextFair == Arrives \/ Settles

SpecFair == Init /\ [][NextFair]_vars /\ WF_vars(Settles)

\* ------------------------------------------- every propagation succeeds
\* Well-formed requests against downstream services that are all up: every
\* post is answered 2xx and its body applied.  Posts in flight at the same
\* time are answered in any order.
NextOk ==
  \/ \E b \in WellFormedBodies : ToggleStart(b)
  \/ \E r \in 1..MaxReqs : ToggleResume(r, "ok")
  \/ ResetStart
  \/ \E r \in 1..MaxReqs : ResetResume(r, "ok")
  \/ StatusStart
  \/ \E r \in 1..MaxReqs, o \in HealthOutcomes : StatusResume(r, o)
  \/ CascadingStart
  \/ \E n \in 1..MaxScenarios : TimerFires(n)
  \/ \E n \in 1..MaxScenarios, k \in 1..Len(CascadeSeq) : StepResume(n, k, "ok")

SpecOk == Init /\ [][NextOk]_vars

\* ------------------------------------------- one request at a time
\* A controller that has already served requests: some flags are set.
StartCells ==
  { <<"claims", "high_latency">>, <<"claims", "memory_spike">>,
    <<"policy", "memory_spike">>, <<"notification", "cpu_spike">> }

StartStates ==
  { [s \in Services |-> [f \in FaultKinds |-> IF <<s, f>> \in X THEN T ELSE F]] :
      X \in SUBSET StartCells }

InitSeq ==
  /\ masterState \in StartStates
  /\ remote = [s \in Services |-> [f \in FaultKinds |-> F]]
  /\ reqs = EmptyObj
  /\ started = 0
  /\ timers = << >>
  /\ lastResp = NoResp
  /\ initial = masterState

\* Bodies naming a registered service (or "all"), a known fault and a boolean.
SeqBodies == [service : Services \cup {"all"}, fault : FaultKinds, enabled : {T, F}]

Inverse(b) == [b EXCEPT !.enabled = IF @ = T THEN F ELSE T]

\* No handler is in progress.
Quiet == reqs = EmptyObj

\* A client that waits for each response before it sends the next request: a
\* toggle, then the toggle that undoes it, or a reset.
NextSeq ==
  \/ \E b \in SeqBodies : started = 0 /\ ToggleStart(b)
  \/ Quiet /\ lastResp.status = "updated" /\ ToggleStart(Inverse(lastResp.req.body))
  \/ Quiet /\ ResetStart
  \/ \E r \in 1..MaxReqs, o \in PostOutcomes : ToggleResume(r, o)
  \/ \E r \in 1..MaxReqs, o \in PostOutcomes : ResetResume(r, o)

SpecSeq == InitSeq /\ [][NextSeq]_vars

\* ================================================================ claims
AllFlagsFalse(rec) == FaultKinds \subseteq DOMAIN rec /\ \A k \in DOMAIN rec : rec[k] = F

\* C1 (as stated): the masterState in the response of a reset has every flag
\* of every registered service false, under every interleaving with toggle
\* requests and scenario steps.
C1_ResetResponseAllFalse ==
  lastResp.status = "reset" =>
    \A s \in Services : AllFlagsFalse(lastResp.masterState[s])

\* C1 (amended): the masterState in the response of a reset has every flag
\* false for each service that no toggle request and no scenario step wrote
\* after the reset had cleared it, whatever MasterState was before.
C1_ResetResponseFalseUnlessRewritten ==
  lastResp.status = "reset" =>
    \A s \in Services \ lastResp.req.dirty : AllFlagsFalse(lastResp.masterState[s])

\* A reset answered after a toggle rewrote claims, which it had cleared.
C1_Witness ==
  /\ lastResp.status = "reset"
  /\ lastResp.req.dirty = {"claims"}
  /\ Get(lastResp.masterState["claims"], "high_latency") = T
  /\ \A s \in Services \ {"claims"} : AllFlagsFalse(lastResp.masterState[s])

\* A toggle of one registered service, a known fault and a boolean.
SingleToggle(req) ==
  /\ req.kind = "toggle"
  /\ req.body.service \in Services
  /\ req.body.fault \in FaultKinds
  /\ req.body.enabled \in {T, F}

\* C2: when the propagation of toggle(service, fault, enabled) fails, the step
\* that receives the failure answers 200 "updated", writes nothing to
\* MasterState, and (no other handler having written the service meanwhile)
\* MasterState[service][fault] is enabled in the response and in the store.
C2_FailureIsolated ==
  [][\A r \in DOMAIN reqs :
       (SingleToggle(reqs[r]) /\ r \notin DOMAIN reqs') =>
         /\ lastResp'.id = r
         /\ lastResp'.code = 200
         /\ lastResp'.status = "updated"
         /\ masterState' = masterState
         /\ lastResp'.req.failed = {reqs[r].body.service} =>
              (reqs[r].body.service \notin reqs[r].dirty =>
                 /\ Get(lastResp'.masterState[reqs[r].body.service], reqs[r].body.fault)
                      = reqs[r].body.enabled
                 /\ Get(masterState'[reqs[r].body.service], reqs[r].body.fault)
                      = reqs[r].body.enabled)]_vars

\* toggle("claims", "memory_spike", true) answered after its propagation failed.
C2_Witness ==
  /\ lastResp.status = "updated"
  /\ lastResp.req.body = [service |-> "claims", fault |-> "memory_spike", enabled |-> T]
  /\ lastResp.req.failed = {"claims"}
  /\ lastResp.req.dirty = {}
  /\ Get(lastResp.masterState["claims"], "memory_spike") = T
  /\ remote["claims"]["memory_spike"] = F

\* C3: toggle("all", fault, true) handled on its own sets fault to true for
\* every registered service and leaves every other flag of every service as
\* it was before the request.
C3_ToggleAllFrame ==
  (/\ lastResp.id = 1
   /\ lastResp.status = "updated"
   /\ lastResp.req.body.service = "all"
   /\ lastResp.req.body.enabled = T) =>
    \A s \in Services :
      /\ DOMAIN masterState[s] = FaultKinds
      /\ lastResp.masterState[s] = masterState[s]
      /\ \A f \in FaultKinds :
           masterState[s][f] = IF f = lastResp.req.body.fault THEN T ELSE initial[s][f]

\* From an all-false table, toggle("all", "memory_spike", true) has answered
\* with exactly the four memory_spike flags true.
C3_Witness ==
  /\ lastResp.id = 1
  /\ lastResp.status = "updated"
  /\ lastResp.req.body = [service |-> "all", fault |-> "memory_spike", enabled |-> T]
  /\ \A s \in Services, f \in FaultKinds : initial[s][f] = F
  /\ \A s \in Services, f \in FaultKinds :
       Get(lastResp.masterState[s], f) = IF f = "memory_spike" THEN T ELSE F

\* The second toggle of a round trip has answered: request 1 was
\* toggle(service, fault, true), request 2 toggle(service, fault, false).
RoundTripDone ==
  /\ lastResp.id = 2
  /\ lastResp.status = "updated"
  /\ lastResp.req.body.service \in Services
  /\ lastResp.req.body.enabled = F

\* C4 (as stated): toggle(service, fault, true) then toggle(service, fault,
\* false) leaves MasterState equal to its value before the first toggle.
C4_RoundTripRestores == RoundTripDone => masterState = initial

\* C4 (amended): toggle(service, fault, true) then toggle(service, fault,
\* false) leaves MasterState equal to its value before the first toggle
\* except that MasterState[service][fault] is false.
C4_RoundTripClearsFlag ==
  RoundTripDone =>
    /\ masterState =
         [initial EXCEPT ![lastResp.req.body.service][lastResp.req.body.fault] = F]
    /\ lastResp.masterState = masterState

\* A round trip on a flag that was true before it.
C4_Witness ==
  /\ RoundTripDone
  /\ initial[lastResp.req.body.service][lastResp.req.body.fault] = T
  /\ masterState[lastResp.req.body.service][lastResp.req.body.fault] = F

\* C5: the step in which the last health check of a status request settles
\* sends the response, whatever the outcomes were; in it a service whose
\* health check failed has healthy=false and chaos equal to the local
\* MasterState record of that service, and a service whose check succeeded has
\* healthy=true and chaos equal to the reported chaos field, or {} without one.
C5_StatusEntries ==
  [][\A r \in DOMAIN reqs :
       (reqs[r].kind = "status" /\ r \notin DOMAIN reqs') =>
         /\ lastResp'.id = r
         /\ lastResp'.code = 200
         /\ DOMAIN lastResp'.services = Services
         /\ \A s \in Services :
              LET h == lastResp'.req.health[s]
                  e == lastResp'.services[s]
              IN IF h.outcome = "error"
                   THEN /\ e.healthy = FALSE
                        /\ e.chaos = ToJSON(masterState'[s])
                        /\ e.chaos = lastResp'.masterState[s]
                   ELSE /\ e.healthy = TRUE
                        /\ e.chaos = IF h.outcome = "chaos" THEN h.chaos ELSE EmptyObj]_vars

\* A status response with claims unreachable while its high_latency flag is
\* set locally, policy reporting no chaos field, investment reporting one.
C5_Witness ==
  /\ lastResp.status = "status"
  /\ lastResp.services["claims"].healthy = FALSE
  /\ Get(lastResp.services["claims"].chaos, "high_latency") = T
  /\ lastResp.req.health["policy"].outcome = "nochaos"
  /\ lastResp.services["policy"].chaos = EmptyObj
  /\ lastResp.req.health["investment"].outcome = "chaos"
  /\ lastResp.services["investment"].healthy = TRUE

\* The cells of the scenario in the declared order.
C6Cells ==
  << <<"claims", "high_latency">>, <<"policy", "high_latency">>, <<"claims", "db_failure">>,
     <<"investment", "service_crash">>, <<"notification", "service_crash">> >>

\* C6: with the cascading scenario as the only request, from an all-false
\* table, after k steps have fired exactly the first k cells of the declared
\* order are true, and after the last step exactly the five cells are.
C6_CascadeOrder ==
  (started = 1 /\ Len(timers) = 1) =>
    /\ timers[1].fired \in 0..5
    /\ masterState =
         [s \in Services |->
            [f \in FaultKinds |->
               IF \E j \in 1..timers[1].fired : C6Cells[j] = <<s, f>> THEN T ELSE F]]

\* Between the second and the third step: only the first two cells are true.
C6_Witness ==
  /\ started = 1
  /\ Len(timers) = 1
  /\ timers[1].fired = 2
  /\ masterState["claims"]["high_latency"] = T
  /\ masterState["policy"]["high_latency"] = T
  /\ masterState["claims"]["db_failure"] = F

\* C7: the step that answers a cascading-scenario request answers 200
\* {status: "cascading_failure_started", steps: 5} with none of the
\* invocation's steps fired: it writes nothing to MasterState, sends no
\* propagation and awaits no downstream call.
C7_AnswersBeforeAnyStep ==
  [][(started' = started + 1 /\ Len(timers') = Len(timers) + 1) =>
       /\ lastResp'.id = started'
       /\ lastResp'.code = 200
       /\ lastResp'.status = "cascading_failure_started"
       /\ lastResp'.steps = 5
       /\ masterState' = masterState
       /\ remote' = remote
       /\ reqs' = reqs
       /\ timers'[Len(timers')].fired = 0
       /\ timers'[Len(timers')].inflight = {}]_vars

\* A scenario answered while a toggle still awaits a downstream service.
C7_Witness ==
  /\ lastResp.status = "cascading_failure_started"
  /\ lastResp.steps = 5
  /\ Len(timers) = 1
  /\ timers[1].fired = 0
  /\ reqs # EmptyObj

\* C8: MasterState maps the four registered services to records that map
\* exactly the five known fault kinds to booleans.
C8_MasterStateShape ==
  /\ DOMAIN masterState = Services
  /\ \A s \in Services :
       /\ DOMAIN masterState[s] = FaultKinds
       /\ \A k \in DOMAIN masterState[s] : masterState[s][k] \in {T, F}

\* A body with all three fields that names an unregistered service or fault.
NamesUnknown(b) ==
  /\ b.service # U /\ b.fault # U /\ b.enabled # U
  /\ b.service \notin Services \cup {"all"} \/ b.fault \notin FaultKinds

\* C9: a toggle request naming a service outside the registry (other than
\* "all") or a fault outside the known kinds leaves MasterState unchanged,
\* sends no propagation and answers "updated".
C9_UnknownToggleIsNoOp ==
  [][\A b \in ToggleBodies :
       (NamesUnknown(b) /\ started' = started + 1 /\
        (\/ (started' \in DOMAIN reqs' /\ reqs'[started'].kind = "toggle"
               /\ reqs'[started'].body = b)
         \/ (lastResp'.id = started' /\ lastResp'.req.kind = "toggle"
               /\ lastResp'.req.body = b))) =>
         /\ masterState' = masterState
         /\ reqs' = reqs
         /\ lastResp'.id = started'
         /\ lastResp'.status = "updated"]_vars

\* C10: a toggle request whose body lacks service, fault or enabled is
\* answered with a 4xx, never as a successful update.
C10_MissingFieldRejected ==
  (/\ lastResp.req.kind = "toggle"
   /\ U \in {lastResp.req.body.service, lastResp.req.body.fault, lastResp.req.body.enabled}) =>
    /\ lastResp.code \in 400..499
    /\ lastResp.status # "updated"

\* ------------------------------------------------------------------- C11
\* Every key of the record holds false.
Cleared(rec) == \A k \in DOMAIN rec : rec[k] = F

\* rec2 is rec1 with at most one key assigned.
OneCell(rec1, rec2) ==
  \E k \in DOMAIN rec2 :
    \A j \in DOMAIN rec2 \ {k} : j \in DOMAIN rec1 /\ rec2[j] = rec1[j]

\* The reset handlers that run their loop body in this step.
ResetSteps ==
  {r \in DOMAIN reqs' :
     /\ reqs'[r].kind = "reset"
     /\ r \in DOMAIN reqs => reqs'[r].i # reqs[r].i}

C12_NoLock ==
  /\ started < MaxReqs =>
       /\ ENABLED StatusStart
       /\ ENABLED ResetStart
       /\ \A b \in LiveBodies : ENABLED ToggleStart(b)
  /\ \A n \in 1..Len(timers) :
       (/\ timers[n].fired < Len(CascadeSeq)
        /\ timers[n].inflight = {}
        /\ \A m \in 1..(n - 1) : timers[m].fired = Len(CascadeSeq))
       => ENABLED TimerFires(n)

\* C12: a downstream outage never blocks the coordinator.  Whatever posts
\* and health checks fail, every toggle, reset and status request in
\* progress is eventually answered with 200, and in every state a new
\* request or a due scenario step can be handled although other handlers
\* are still awaiting a downstream call.
C12_OutageNeverBlocks ==
  /\ \A r \in 1..MaxReqs :
       (r \in DOMAIN reqs) ~> (lastResp.id = r /\ lastResp.code = 200)
  /\ []C12_NoLock

\* The second request has been answered while the first, one of whose
\* posts has already failed, is still awaiting a downstream call.
C12_Witness ==
  /\ lastResp.id = 2
  /\ lastResp.code = 200
  /\ 1 \in DOMAIN reqs
  /\ reqs[1].failed # {}

\* ------------------------------------------------------------------- C13
\* The services a handler has to propagate to once it has advanced to its
\* i-th mutation unit: one per unit, in the order of the units.
UnitsOf(req) ==
  IF req.kind = "reset" \/ (req.kind = "toggle" /\ req.body.service = "all")
    THEN SubSeq(SvcOrder, 1, req.i)
  ELSE IF req.kind = "toggle" /\ Truthy(req.body.service)
    THEN <<req.body.service>>
    ELSE << >>

\* The handlers of GET /chaos/status that run in this step.
StatusSteps ==
  {r \in DOMAIN reqs \cup DOMAIN reqs' :
     /\ (IF r \in DOMAIN reqs THEN reqs[r] ELSE reqs'[r]).kind = "status"
     /\ r \notin DOMAIN reqs \/ r \notin DOMAIN reqs' \/ reqs'[r].i # reqs[r].i}

C13_OnePostPerUnit ==
  /\ \A r \in DOMAIN reqs : reqs[r].posts = UnitsOf(reqs[r])
  /\ lastResp.status \in {"updated", "reset", "status"} =>
       /\ lastResp.req.posts = UnitsOf(lastResp.req)
       /\ lastResp.req.failed \subseteq {lastResp.req.posts[j] : j \in 1..Len(lastResp.req.posts)}
  /\ \A n \in 1..Len(timers) : timers[n].inflight \subseteq 1..timers[n].fired

C13_NoResend ==
  \* a handler whose post has failed does not post to that service again
  /\ \A r \in DOMAIN reqs \cap DOMAIN reqs' :
       /\ Len(reqs'[r].posts) \in {Len(reqs[r].posts), Len(reqs[r].posts) + 1}
       /\ reqs'[r].failed # reqs[r].failed => reqs'[r].target # reqs[r].target
  \* a scenario step posts when it fires, and a settled post is not sent again
  /\ \A n \in 1..Len(timers) :
       IF timers'[n].fired = timers[n].fired
         THEN timers'[n].inflight \subseteq timers[n].inflight
         ELSE /\ timers'[n].fired = timers[n].fired + 1
              /\ timers'[n].inflight = timers[n].inflight \cup {timers'[n].fired}
  \* a status query writes nothing and sends nothing
  /\ StatusSteps # {} =>
       /\ masterState' = masterState
       /\ remote' = remote
       /\ timers' = timers
       /\ \A r \in DOMAIN reqs' :
            reqs'[r].posts = IF r \in StatusSteps THEN << >> ELSE reqs[r].posts

\* C13: propagation is at most once and never retried.  A handler has
\* called propagateChaos exactly once for each mutation unit it has reached
\* (the toggled service, each service of a toggle of all and of a reset, in
\* order) and a scenario exactly once for each step that has fired; a post
\* that failed is not sent again; a step of a status query leaves
\* MasterState and every downstream service as they were and posts nothing.
C13_AtMostOnce == []C13_OnePostPerUnit /\ [][C13_NoResend]_vars

\* A toggle of every service answers after its post to policy failed: it
\* posted to each of the four services once.
C13_Witness ==
  /\ lastResp.status = "updated"
  /\ lastResp.req.body.service = "all"
  /\ lastResp.req.failed = {"policy"}
  /\ lastResp.req.posts = SvcOrder

\* ------------------------------------------------------------------- C14
\* C14: reset sends each registered service exactly one propagation, and
\* its body is that service's whole record with every flag false.  While a
\* reset awaits its i-th post it has posted once to each of the first i
\* services and the body in flight has all five fault kinds, every key
\* false; when it answers it has posted once to each of the four services.
C14_ResetSendsClearedRecord ==
  /\ \A r \in DOMAIN reqs :
       reqs[r].kind = "reset" =>
         /\ reqs[r].posts = SubSeq(SvcOrder, 1, reqs[r].i)
         /\ reqs[r].target = SvcOrder[reqs[r].i]
         /\ AllFlagsFalse(reqs[r].payload)
  /\ lastResp.status = "reset" => lastResp.req.posts = SvcOrder

\* A reset awaits its post to claims, an all-false record, while a toggle
\* of every service to true is in progress and has written claims.
C14_Witness ==
  \E r \in DOMAIN reqs :
    /\ reqs[r].kind = "reset"
    /\ reqs[r].target = "claims"
    /\ AllFlagsFalse(reqs[r].payload)
    /\ \E q \in DOMAIN reqs :
         /\ reqs[q].kind = "toggle"
         /\ reqs[q].body = [service |-> "all", fault |-> "high_latency", enabled |-> T]
         /\ reqs[q].i = 2

\* ------------------------------------------------------------------- C15
\* A scenario keeps its timers; each step runs after the one before it, and
\* the callback that runs sets the step's flag to true.
C15_StepsFireOnce ==
  /\ Len(timers') >= Len(timers)
  /\ \A n \in 1..Len(timers) :
       \/ timers'[n].fired = timers[n].fired
       \/ /\ timers'[n].fired = timers[n].fired + 1
          /\ LET step == CascadeSeq[timers'[n].fired]
             IN masterState'[step.service][step.fault] = T

\* C15: scenario steps cannot be cancelled.  Once a scenario has been
\* started, all five of its steps eventually fire, each once and each
\* setting its flag to true, whatever posts of earlier steps fail and
\* whatever toggles and resets run in between.
C15_StepsCannotBeCancelled ==
  /\ \A n \in 1..MaxScenarios :
       (Len(timers) >= n) ~> (Len(timers) >= n /\ timers[n].fired = Len(CascadeSeq))
  /\ [][C15_StepsFireOnce]_vars

\* All five steps have fired although a reset ran in between: policy's
\* flag, set by step 2, has been cleared, and the flags of steps 3 to 5,
\* set after the reset had passed their services, are true.
C15_Witness ==
  /\ Len(timers) = 1
  /\ timers[1].fired = Len(CascadeSeq)
  /\ reqs = EmptyObj
  /\ masterState["policy"]["high_latency"] = F
  /\ masterState["claims"]["db_failure"] = T
  /\ masterState["investment"]["service_crash"] = T
  /\ masterState["notification"]["service_crash"] = T

\* ------------------------------------------------------------------- C16
ToggleAll(req) == req.kind = "toggle" /\ req.body.service = "all"

\* A toggle of every service has one post outstanding, to the service it
\* wrote last; when it answers it has posted once to each service, whichever
\* of the posts failed, and every service nobody else wrote since shows the
\* flag with the requested value.
C16_BatchState ==
  /\ \A r \in DOMAIN reqs :
       ToggleAll(reqs[r]) =>
         /\ reqs[r].i \in 1..Len(SvcOrder)
         /\ reqs[r].target = SvcOrder[reqs[r].i]
         /\ reqs[r].posts = SubSeq(SvcOrder, 1, reqs[r].i)
         /\ reqs[r].failed \subseteq {SvcOrder[j] : j \in 1..(reqs[r].i - 1)}
  /\ (lastResp.status = "updated" /\ ToggleAll(lastResp.req)) =>
       /\ lastResp.req.posts = SvcOrder
       /\ lastResp.req.failed \subseteq Services
       /\ \A s \in Services \ lastResp.req.dirty :
            Get(lastResp.masterState[s], lastResp.req.body.fault) = lastResp.req.body.enabled

\* The batch writes its next service in the step in which the post to the
\* previous one settles, and writes that service only.
C16_BatchStep ==
  \A r \in DOMAIN reqs \cap DOMAIN reqs' :
    (ToggleAll(reqs[r]) /\ reqs'[r].i # reqs[r].i) =>
      LET svc == SvcOrder[reqs'[r].i]
      IN /\ reqs'[r].i = reqs[r].i + 1
         /\ reqs'[r].failed \in {reqs[r].failed, reqs[r].failed \cup {reqs[r].target}}
         /\ masterState'[svc][reqs[r].body.fault] = reqs[r].body.enabled
         /\ \A s \in Services \ {svc} : masterState'[s] = masterState[s]

\* C16: in a toggle of every service a failed propagation does not stop the
\* batch.  For every set of failing services each registered service has
\* its flag set and gets exactly one propagation attempt before the
\* response, and a service is written only in the step in which the post
\* to the service before it has finished.
C16_BatchSurvivesFailure == []C16_BatchState /\ [][C16_BatchStep]_vars

\* The posts to claims and to investment failed; the response shows the
\* flag true on all four services.
C16_Witness ==
  /\ lastResp.status = "updated"
  /\ lastResp.req.body = [service |-> "all", fault |-> "high_latency", enabled |-> T]
  /\ lastResp.req.failed = {"claims", "investment"}
  /\ lastResp.req.dirty = {}
  /\ \A s \in Services : lastResp.masterState[s]["high_latency"] = T

\* ------------------------------------------------------------------- C17
\* The toggle handlers that call propagateChaos for a registered service
\* in this step.
ToggleSends ==
  {r \in DOMAIN reqs' :
     /\ reqs'[r].kind = "toggle"
     /\ reqs'[r].target \in Services
     /\ r \in DOMAIN reqs => Len(reqs'[r].posts) > Len(reqs[r].posts)}

\* The callback that sends a delta has assigned the flag first: when the
\* callback ends, the flag holds the value the delta carries, and the body of
\* the post is { [fault]: enabled } and nothing else.
C17_SendStep ==
  /\ \A r \in ToggleSends :
       LET req == reqs'[r]
       IN /\ Get(masterState'[req.target], req.body.fault) = req.body.enabled
          /\ req.payload = Delta(req.body.fault, req.body.enabled)
          /\ DOMAIN req.payload \subseteq {req.body.fault}
  /\ \A n \in 1..Len(timers) :
       timers'[n].inflight \ timers[n].inflight # {} =>
         LET step == CascadeSeq[timers'[n].fired]
         IN /\ timers'[n].inflight \ timers[n].inflight = {timers'[n].fired}
            /\ timers'[n].fired = timers[n].fired + 1
            /\ masterState'[step.service][step.fault] = T

\* While the delta is in flight the flag holds its value, unless another
\* handler or timer has written the service since.
C17_WriteApplied ==
  \A r \in DOMAIN reqs :
    (reqs[r].kind = "toggle" /\ reqs[r].target \in Services \ reqs[r].dirty) =>
      /\ Get(masterState[reqs[r].target], reqs[r].body.fault) = reqs[r].body.enabled
      /\ reqs[r].payload = Delta(reqs[r].body.fault, reqs[r].body.enabled)

\* C17: the local write always precedes the propagation.  For every toggle
\* and scenario step the delta { fault: v } goes to a service in the same
\* callback that has set MasterState[service][fault] to v, so that no other
\* operation runs between the write and the send; the body carries the
\* toggled fault only; no state has a delta in flight for an operation
\* whose write has not been applied.
C17_WriteBeforeSend == []C17_WriteApplied /\ [][C17_SendStep]_vars

\* The delta { high_latency: true } of a toggle of claims is in flight with
\* the flag already true, while a second handler is in progress.
C17_Witness ==
  \E r \in DOMAIN reqs :
    /\ reqs[r].kind = "toggle"
    /\ reqs[r].body.service = "claims"
    /\ reqs[r].target = "claims"
    /\ reqs[r].payload = [k \in {"high_latency"} |-> T]
    /\ masterState["claims"]["high_latency"] = T
    /\ DOMAIN reqs # {r}

\* ------------------------------------------------------------------- C18
\* C18: in every status response, the chaos reported for a service whose
\* health check failed is identical to masterState of that service in the
\* same response, whatever toggles, resets and scenario steps wrote the
\* record between the failed check and the response.
C18_FallbackIsResponseState ==
  lastResp.status = "status" =>
    \A s \in Services :
      ~lastResp.services[s].healthy =>
        lastResp.services[s].chaos = lastResp.masterState[s]

\* The health check of claims failed, claims.high_latency was set to true
\* while the query went on polling, and the response reports it true.
C18_Witness ==
  /\ lastResp.status = "status"
  /\ "claims" \in lastResp.req.dirty
  /\ ~lastResp.services["claims"].healthy
  /\ Get(lastResp.services["claims"].chaos, "high_latency") = T
  /\ lastResp.services["claims"].chaos = lastResp.masterState["claims"]

\* ------------------------------------------------------------------- C19
\* No request is in flight and no scenario step is pending or unsettled.
Quiescent ==
  /\ reqs = EmptyObj
  /\ \A n \in 1..Len(timers) :
       timers[n].fired = Len(CascadeSeq) /\ timers[n].inflight = {}

\* C19: with every propagation succeeding and every downstream service
\* starting all false and applying each delta it receives, whenever the
\* controller is quiescent each downstream service's flags equal its
\* MasterState record.
C19_DownstreamEqualsMasterState ==
  Quiescent => \A s \in Services : remote[s] = masterState[s]
====
